---- MODULE Spec2Model ----
(***************************************************************************)
(* Model of the chat gateway of main.py: the token check, the process-wide *)
(* active_connections map, the per-connection websocket_endpoint coroutine *)
(* and the chats / messages collections it reads and writes.               *)
(*                                                                         *)
(* Granularity.  Every handler is an "async def" running on one event      *)
(* loop and every pymongo call is synchronous, so a coroutine is only      *)
(* suspended at its awaits: accept(), receive_text(), send_text() and      *)
(* close().  One action of the model is the code between two awaits.  The  *)
(* only finer split is Receive / Handle: Receive assigns the coroutine's   *)
(* local message_data and nothing else, so it commutes with every step of  *)
(* every other coroutine.                                                  *)
(***************************************************************************)
EXTENDS Integers, Sequences, FiniteSets, TLC

\* ---- bounds ----
MaxConns == 2
MaxDocs == 3

\* ---- values ----
Users == {"alice", "bob", "carol"}
None == "None"
Conns == 1 .. MaxConns
NoConn == 0
NoTime == 0
POLICY_VIOLATION == 1008
NoCode == 0
Bodies == {"hi"}

\* The documents of tokens_collection: one token per user (generate_token
\* deletes a user's older tokens before inserting the new one).
tokens_collection ==
    { [token |-> "tok_alice", username |-> "alice"],
      [token |-> "tok_bob", username |-> "bob"],
      [token |-> "tok_carol", username |-> "carol"] }

\* the tokens clients present; carol holds a token but stays offline
TokenInputs == {"tok_alice", "tok_bob", "stale_token"}

\* chat ids are str(ObjectId): the n-th inserted chat has id n.  InvalidId is a
\* string that ObjectId() rejects, MissingId a well-formed id of no document.
InvalidId == 0
MissingId == MaxDocs + 1
ObjectIdValid(s) == s >= 1

VARIABLES
    chats,               \* chats_collection, in insertion (natural) order
    messages,            \* messages_collection, in insertion order
    clock,               \* time.time()
    active_connections,  \* username -> connection, NoConn when the key is absent
    pc,                  \* where each websocket_endpoint coroutine is
    token,               \* its path parameter "token"
    username,            \* its local "username"
    transport,           \* the client's end of the socket: "open", "closed" (the
                         \* client left; frames it sent before may still be
                         \* queued) or "lost" (it left during the handshake)
    close_code,          \* the close code the server sent, if any
    frame,               \* its local message_data while a frame is handled
    idx,                 \* its position in the participants loop of line 364
    sent,                \* the last send_text call of the step just taken, if any
    handled              \* the frame whose loop iteration the step just taken
                         \* finished or abandoned, with its connection, if any

vars == << chats, messages, clock, active_connections, pc, token,
           username, transport, close_code, frame, idx, sent, handled >>

store == << chats, messages, clock >>

\* ---- helpers ----
InSeq(x, s) == \E k \in 1 .. Len(s) : s[k] = x

NoFrame == [type |-> "none"]

\* ---- MongoUserManager ----

\* mutant: an unknown token is let in under a guest identity
validate_token_guest(t) ==
    IF \E d \in tokens_collection : d.token = t
    THEN (CHOOSE d \in tokens_collection : d.token = t).username
    ELSE "carol"

\* validate_token: the username of the token's document, or None
validate_token(t) ==
    IF \E d \in tokens_collection : d.token = t
    THEN (CHOOSE d \in tokens_collection : d.token = t).username
    ELSE None

\* lines 128-131: participants is either a str or a list
NormParticipants(initiator, p) ==
    IF p.is_str THEN << initiator, p.v[1] >>
    ELSE IF InSeq(initiator, p.v) THEN p.v
    ELSE Append(p.v, initiator)

\* mutant: the filter compares the participants list as a whole
MatchesAllOrdered(doc, parts) ==
    /\ doc.participants = parts
    /\ doc.is_group = FALSE

\* the filter {'participants': {'$all': parts}, 'is_group': False}
MatchesAll(doc, parts) ==
    /\ Len(parts) > 0
    /\ \A k \in 1 .. Len(parts) : InSeq(parts[k], doc.participants)
    /\ doc.is_group = FALSE

\* find_one of lines 135-138: the first matching document, 0 if there is none
FindExisting(cs, parts) ==
    IF \E i \in 1 .. Len(cs) : MatchesAll(cs[i], parts)
    THEN CHOOSE i \in 1 .. Len(cs) :
            /\ MatchesAll(cs[i], parts)
            /\ \A j \in 1 .. (i - 1) : ~MatchesAll(cs[j], parts)
    ELSE 0

\* mutant: the lookup for an existing chat is left out
ExistingChatNever(cs, parts, is_group) == 0

\* lines 134-140: the id of the chat to reuse, 0 when a document is inserted
ExistingChat(cs, parts, is_group) ==
    IF is_group THEN 0 ELSE FindExisting(cs, parts)

ChatDocument(parts, is_group, now) ==
    [ participants |-> parts,
      created_at |-> now,
      last_message_at |-> NoTime,
      is_group |-> is_group,
      chat_name |-> IF is_group THEN parts[1] ELSE None ]

\* create_chat: << chats afterwards, returned id >>
create_chat(cs, initiator, p, is_group, now) ==
    LET parts == NormParticipants(initiator, p)
        found == ExistingChat(cs, parts, is_group)
    IN  IF found # 0 THEN << cs, found >>
        ELSE << Append(cs, ChatDocument(parts, is_group, now)), Len(cs) + 1 >>

MessageDocument(chat_id, sender, message, now) ==
    [ chat_id |-> chat_id, sender |-> sender, message |-> message,
      timestamp |-> now ]

\* update_one of lines 165-168: no document matched is not an error
TouchChat(cs, chat_id, now) ==
    IF chat_id \in 1 .. Len(cs)
    THEN [cs EXCEPT ![chat_id].last_message_at = now]
    ELSE cs

\* get_chat_messages: the chat's messages by ascending timestamp
RECURSIVE SortedInsert(_, _)
SortedInsert(s, m) ==
    IF s = << >> THEN << m >>
    ELSE IF m.timestamp < s[1].timestamp THEN << m >> \o s
    ELSE << s[1] >> \o SortedInsert(Tail(s), m)

RECURSIVE get_chat_messages_from(_, _, _)
get_chat_messages_from(ms, chat_id, acc) ==
    IF ms = << >> THEN acc
    ELSE get_chat_messages_from(Tail(ms), chat_id,
            IF ms[1].chat_id = chat_id THEN SortedInsert(acc, ms[1]) ELSE acc)

get_chat_messages(chat_id) == get_chat_messages_from(messages, chat_id, << >>)

\* ---- frames ----
\* the sender field clients put in their frames: alice's own name, which bob's
\* client may send as well
SenderInputs == {"alice"}

StrArg(u) == [is_str |-> TRUE, v |-> << u >>]
ListArg(l) == [is_str |-> FALSE, v |-> l]

\* the create-chat requests clients make: << initiator, participants, is_group >>
CreateInputs ==
    { << "alice", StrArg("bob"), FALSE >>,
      << "bob", StrArg("alice"), FALSE >>,
      << "alice", ListArg(<< "bob", "carol" >>), TRUE >>,
      << "alice", ListArg(<< >>), FALSE >> }

CreateFrames ==
    { [type |-> "create_chat", initiator |-> r[1], participants |-> r[2],
       is_group |-> r[3]] : r \in CreateInputs }

SendFrames ==
    { [type |-> "send_message", chat_id |-> c, sender |-> s, message |-> b] :
        c \in {InvalidId, MissingId} \cup (1 .. Len(chats)), s \in SenderInputs, b \in Bodies }

OtherFrames == { [type |-> "typing"], [type |-> "<not json>"] }

ChatCreated(chat_id, participants, is_group) ==
    [ type |-> "chat_created", chat_id |-> chat_id, participants |-> participants,
      is_group |-> is_group ]

NewMessage(chat_id, sender, message, is_group) ==
    [ type |-> "new_message", chat_id |-> chat_id, sender |-> sender,
      message |-> message, is_group |-> is_group ]

\* str(e) of line 378 is kept as the exception's class, and for a pymongo
\* error as the call that raised it
ErrorFrame(e) == [ type |-> "error", message |-> e ]

\* a send_text call on the socket of connection d: the client got the frame
\* ("delivered"), or it had left and the write was dropped or raised
Sent(d, fr, result) == [to |-> d, frame |-> fr, result |-> result]
NoSend == [to |-> NoConn, frame |-> NoFrame, result |-> "none"]

\* the end of an iteration of the loop of line 332 for frame fr of connection c
Handled(c, fr) == [conn |-> c, frame |-> fr]
NotHandled == [conn |-> NoConn, frame |-> NoFrame]

\* ---- initial state ----
Init ==
    /\ chats = << >>
    /\ messages = << >>
    /\ clock = 1
    /\ active_connections = [u \in Users |-> NoConn]
    /\ pc = [c \in Conns |-> "idle"]
    /\ token = [c \in Conns |-> None]
    /\ username = [c \in Conns |-> None]
    /\ transport = [c \in Conns |-> "none"]
    /\ close_code = [c \in Conns |-> NoCode]
    /\ frame = [c \in Conns |-> NoFrame]
    /\ idx = [c \in Conns |-> 0]
    /\ sent = NoSend
    /\ handled = NotHandled


\* ---- the websocket_endpoint coroutine ----

\* the client of connection c is no longer there
Gone(c) == transport[c] \in {"closed", "lost"}

\* mutant: the finally clause leaves the entry in place
finally_clause_keep(ac, u) == ac

\* mutant: the finally clause empties the whole map
finally_clause_clear(ac, u) == [v \in Users |-> NoConn]

\* lines 385-386: the key of this handler's username is deleted if present
finally_clause(ac, u) == [ac EXCEPT ![u] = NoConn]

\* The handler returns through the finally clause, by a WebSocketDisconnect or
\* by an exception nothing catches; the server then drops the socket.  username
\* keeps the name the handler ran under.
EndHandler(c) ==
    /\ handled' = Handled(c, frame[c])
    /\ pc' = [pc EXCEPT ![c] = "closed"]
    /\ active_connections' = finally_clause(active_connections, username[c])
    /\ transport' = [transport EXCEPT ![c] = "closed"]
    /\ token' = [token EXCEPT ![c] = None]
    /\ frame' = [frame EXCEPT ![c] = NoFrame]
    /\ idx' = [idx EXCEPT ![c] = 0]
    /\ UNCHANGED << username, close_code >>

\* back to "await websocket.receive_text()" of line 333
Resume(c) ==
    /\ handled' = Handled(c, frame[c])
    /\ pc' = [pc EXCEPT ![c] = "receiving"]
    /\ frame' = [frame EXCEPT ![c] = NoFrame]
    /\ idx' = [idx EXCEPT ![c] = 0]
    /\ UNCHANGED << active_connections, token, username, transport, close_code >>

\* suspended in the send_text of line 366; the loop resumes at participant k
Yield(c, k) ==
    /\ handled' = NotHandled
    /\ pc' = [pc EXCEPT ![c] = "fanout"]
    /\ idx' = [idx EXCEPT ![c] = k]
    /\ UNCHANGED << frame, active_connections, token, username, transport,
                    close_code >>

\* "await websocket.send_text(...)" on the handler's own socket (lines 345 and
\* 376), then the next loop iteration.  A write on a socket the client has left
\* is dropped or raises, depending on the server version; raised outside the
\* inner try, or inside its except block, it ends the handler.
Reply(c, fr) ==
    \/ /\ transport[c] = "open"
       /\ sent' = Sent(c, fr, "delivered")
       /\ Resume(c)
    \/ /\ Gone(c)
       /\ sent' = Sent(c, fr, "dropped")
       /\ Resume(c)
    \/ /\ Gone(c)
       /\ sent' = Sent(c, fr, "raised")
       /\ EndHandler(c)

\* mutant: the handler gives up after reporting the error
ErrorReplyAndClose(c, e) ==
    /\ sent' = Sent(c, ErrorFrame(e), IF transport[c] = "open" THEN "delivered" ELSE "raised")
    /\ EndHandler(c)

\* lines 374-379
ErrorReply(c, e) == Reply(c, ErrorFrame(e))

\* mutant: the loop starts one participant too late
NextTargetSkipFirst(parts, i) ==
    IF \E k \in (i + 1) .. Len(parts) : active_connections[parts[k]] # NoConn
    THEN CHOOSE k \in (i + 1) .. Len(parts) :
            /\ active_connections[parts[k]] # NoConn
            /\ \A l \in (i + 1) .. (k - 1) : active_connections[parts[l]] = NoConn
    ELSE 0

\* line 365: the next participant from position i on that has a key in
\* active_connections, 0 if there is none
NextTarget(parts, i) ==
    IF \E k \in i .. Len(parts) : active_connections[parts[k]] # NoConn
    THEN CHOOSE k \in i .. Len(parts) :
            /\ active_connections[parts[k]] # NoConn
            /\ \A l \in i .. (k - 1) : active_connections[parts[l]] = NoConn
    ELSE 0

\* lines 364-372 from participant i up to the next await.  participants and
\* is_group of a chat document are never updated, so the handler's local copy
\* "chat" equals the stored document.
FanOut(c, i) ==
    LET f == frame[c]
        chat == chats[f.chat_id]
        j == NextTarget(chat.participants, i)
    IN  IF j = 0
        THEN /\ sent' = NoSend
             /\ Resume(c)
        ELSE LET d == active_connections[chat.participants[j]]
                 fr == NewMessage(f.chat_id, f.sender, f.message, chat.is_group)
             IN  \/ /\ transport[d] = "open"
                    /\ sent' = Sent(d, fr, "delivered")
                    /\ Yield(c, j + 1)
                 \/ /\ Gone(d)
                    /\ sent' = Sent(d, fr, "dropped")
                    /\ Yield(c, j + 1)
                 \/ /\ Gone(d)
                    /\ ErrorReply(c, "WebSocketDisconnect")

\* frames taken by receive_text and not handled yet that may insert a document
Pending(type) == Cardinality({ c \in Conns : frame[c].type = type /\ pc[c] = "handling" })

DocsRoom ==
    Len(chats) + Len(messages) + Pending("create_chat") + Pending("send_message")
        < MaxDocs

\* lines 319-324 and the call of accept(): a new connection arrives with a token
Connect(c, t) ==
    /\ handled' = NotHandled
    /\ pc[c] = "idle"
    /\ \A d \in 1 .. (c - 1) : pc[d] # "idle"
    /\ token' = [token EXCEPT ![c] = t]
    /\ username' = [username EXCEPT ![c] = validate_token(t)]
    /\ IF validate_token(t) = None
       THEN /\ pc' = [pc EXCEPT ![c] = "closed"]
            /\ close_code' = [close_code EXCEPT ![c] = POLICY_VIOLATION]
            /\ transport' = [transport EXCEPT ![c] = "closed"]
       ELSE /\ pc' = [pc EXCEPT ![c] = "accepting"]
            /\ close_code' = close_code
            /\ transport' = [transport EXCEPT ![c] = "open"]
    /\ sent' = NoSend
    /\ UNCHANGED << store, active_connections, frame, idx >>

\* lines 326-329: accept() returns and the connection is stored
Accept(c) ==
    /\ handled' = NotHandled
    /\ pc[c] = "accepting"
    /\ pc' = [pc EXCEPT ![c] = "receiving"]
    /\ active_connections' = [active_connections EXCEPT ![username[c]] = c]
    /\ sent' = NoSend
    /\ UNCHANGED << store, token, username, transport, close_code, frame, idx >>

\* line 326: accept() raises because the client left during the handshake;
\* this is outside the try statement
AcceptFails(c) ==
    /\ handled' = NotHandled
    /\ pc[c] = "accepting"
    /\ transport[c] = "lost"
    /\ pc' = [pc EXCEPT ![c] = "closed"]
    /\ token' = [token EXCEPT ![c] = None]
    /\ username' = [username EXCEPT ![c] = None]
    /\ transport' = [transport EXCEPT ![c] = "closed"]
    /\ sent' = NoSend
    /\ UNCHANGED << store, active_connections, close_code, frame, idx >>

\* the client goes away
ClientDisconnect(c) ==
    /\ handled' = NotHandled
    /\ transport[c] = "open"
    /\ transport' = [transport EXCEPT ![c] =
                        IF pc[c] = "accepting" THEN "lost" ELSE "closed"]
    /\ sent' = NoSend
    /\ UNCHANGED << store, active_connections, pc, token, username, close_code,
                    frame, idx >>

\* mutant: the next frame is taken while the fan-out of the last one is suspended
ReceiveDuringFanOut(c, f) ==
    /\ handled' = NotHandled
    /\ pc[c] \in {"receiving", "fanout"}
    /\ transport[c] # "lost"
    /\ f.type \in {"create_chat", "send_message"} => DocsRoom
    /\ pc' = [pc EXCEPT ![c] = "handling"]
    /\ frame' = [frame EXCEPT ![c] = f]
    /\ idx' = [idx EXCEPT ![c] = 0]
    /\ sent' = NoSend
    /\ UNCHANGED << store, active_connections, token, username, transport,
                    close_code >>

\* line 333: receive_text() returns a frame the client has sent (possibly
\* before it went away)
Receive(c, f) ==
    /\ handled' = NotHandled
    /\ pc[c] = "receiving"
    /\ transport[c] # "lost"
    /\ f.type \in {"create_chat", "send_message"} => DocsRoom
    /\ pc' = [pc EXCEPT ![c] = "handling"]
    /\ frame' = [frame EXCEPT ![c] = f]
    /\ sent' = NoSend
    /\ UNCHANGED << store, active_connections, token, username, transport,
                    close_code, idx >>

\* lines 333, 381-386: receive_text() raises WebSocketDisconnect
ReceiveDisconnect(c) ==
    /\ pc[c] = "receiving"
    /\ Gone(c)
    /\ EndHandler(c)
    /\ sent' = NoSend
    /\ UNCHANGED store

\* mutant: the exception of json.loads leaves the handler without the cleanup
HandleMalformedNoCleanup(c) ==
    /\ pc[c] = "handling"
    /\ frame[c].type = "<not json>"
    /\ handled' = Handled(c, frame[c])
    /\ pc' = [pc EXCEPT ![c] = "closed"]
    /\ transport' = [transport EXCEPT ![c] = "closed"]
    /\ token' = [token EXCEPT ![c] = None]
    /\ frame' = [frame EXCEPT ![c] = NoFrame]
    /\ sent' = NoSend
    /\ UNCHANGED << store, active_connections, username, close_code, idx >>

\* line 334: json.loads raises; not a WebSocketDisconnect, so only finally runs
HandleMalformed(c) ==
    /\ pc[c] = "handling"
    /\ frame[c].type = "<not json>"
    /\ EndHandler(c)
    /\ sent' = NoSend
    /\ UNCHANGED store

\* mutant: an unknown type is answered with an error frame
HandleOtherRejects(c) ==
    /\ pc[c] = "handling"
    /\ frame[c].type \notin {"create_chat", "send_message", "<not json>"}
    /\ Resume(c)
    /\ sent' = Sent(c, ErrorFrame("unknown type"), "delivered")
    /\ UNCHANGED store

\* lines 337-352: a type that no branch matches
HandleOther(c) ==
    /\ pc[c] = "handling"
    /\ frame[c].type \notin {"create_chat", "send_message", "<not json>"}
    /\ Resume(c)
    /\ sent' = NoSend
    /\ UNCHANGED store

\* what line 348 echoes: create_chat appends to the caller's list in place, but
\* rebinds its own name when participants is a str
EchoedParticipants(f) ==
    IF f.participants.is_str THEN f.participants
    ELSE ListArg(NormParticipants(f.initiator, f.participants))

\* mutant: the chat_created frame goes to the first connected participant
HandleCreateChatNotify(c) ==
    /\ pc[c] = "handling"
    /\ frame[c].type = "create_chat"
    /\ LET f == frame[c]
           r == create_chat(chats, f.initiator, f.participants, f.is_group, clock)
           parts == r[1][r[2]].participants
           j == NextTarget(parts, 1)
       IN  /\ chats' = r[1]
           /\ clock' = IF r[1] # chats THEN clock + 1 ELSE clock
           /\ messages' = messages
           /\ sent' = IF j = 0 THEN NoSend
                      ELSE Sent(active_connections[parts[j]],
                                ChatCreated(r[2], EchoedParticipants(f), f.is_group),
                                "delivered")
           /\ Resume(c)

\* lines 337-350
HandleCreateChat(c) ==
    /\ pc[c] = "handling"
    /\ frame[c].type = "create_chat"
    /\ LET f == frame[c]
           r == create_chat(chats, f.initiator, f.participants, f.is_group, clock)
       IN  \/ \* a pymongo call raises: nothing catches it
              /\ EndHandler(c)
              /\ sent' = NoSend
              /\ UNCHANGED store
           \/ /\ chats' = r[1]
              /\ clock' = IF r[1] # chats THEN clock + 1 ELSE clock
              /\ messages' = messages
              /\ Reply(c, ChatCreated(r[2], EchoedParticipants(f), f.is_group))

\* line 363: find_one by _id, 0 for None
find_chat(cs, chat_id) == IF chat_id \in 1 .. Len(cs) THEN chat_id ELSE 0

\* mutant: the message is passed on without being stored
InsertMessageSkipped(f) ==
    /\ messages' = messages
    /\ clock' = clock + 1

\* lines 154-162: the message document is inserted
InsertMessage(f) ==
    /\ messages' = Append(messages, MessageDocument(f.chat_id, f.sender, f.message, clock))
    /\ clock' = clock + 1

\* line 162: insert_one raises
SendInsertFails(c) ==
    /\ UNCHANGED store
    /\ ErrorReply(c, "PyMongoError: insert_one")

\* line 166: ObjectId(chat_id) raises InvalidId, after the insert of line 162
SendInvalidId(c) ==
    /\ ~ObjectIdValid(frame[c].chat_id)
    /\ InsertMessage(frame[c])
    /\ chats' = chats
    /\ ErrorReply(c, "InvalidId")

\* mutant: the insert is undone when update_one raises
SendUpdateFailsRollsBack(c) ==
    /\ ObjectIdValid(frame[c].chat_id)
    /\ UNCHANGED << messages, chats >>
    /\ clock' = clock + 1
    /\ ErrorReply(c, "PyMongoError: update_one")

\* lines 165-168: update_one raises, after the insert of line 162
SendUpdateFails(c) ==
    /\ ObjectIdValid(frame[c].chat_id)
    /\ InsertMessage(frame[c])
    /\ chats' = chats
    /\ ErrorReply(c, "PyMongoError: update_one")

\* line 363: find_one raises
SendFindFails(c) ==
    /\ ObjectIdValid(frame[c].chat_id)
    /\ InsertMessage(frame[c])
    /\ chats' = TouchChat(chats, frame[c].chat_id, clock)
    /\ ErrorReply(c, "PyMongoError: find_one")

\* mutant: a missing chat is passed over in silence
SendChatMissingSilent(c) ==
    /\ ObjectIdValid(frame[c].chat_id)
    /\ find_chat(chats, frame[c].chat_id) = 0
    /\ InsertMessage(frame[c])
    /\ chats' = chats
    /\ sent' = NoSend
    /\ Resume(c)

\* lines 363-364: chat is None, chat.get raises AttributeError
SendChatMissing(c) ==
    /\ ObjectIdValid(frame[c].chat_id)
    /\ find_chat(chats, frame[c].chat_id) = 0
    /\ InsertMessage(frame[c])
    /\ chats' = TouchChat(chats, frame[c].chat_id, clock)
    /\ ErrorReply(c, "AttributeError")

\* lines 360-372: stored, then the loop up to its first await
SendFanOut(c) ==
    /\ find_chat(chats, frame[c].chat_id) # 0
    /\ InsertMessage(frame[c])
    /\ chats' = TouchChat(chats, frame[c].chat_id, clock)
    /\ FanOut(c, 1)

\* lines 352-379 up to the first await; add_message_to_chat is lines 152-170
HandleSendMessage(c) ==
    /\ pc[c] = "handling"
    /\ frame[c].type = "send_message"
    /\ \/ SendInsertFails(c)
       \/ SendInvalidId(c)
       \/ SendUpdateFails(c)
       \/ SendFindFails(c)
       \/ SendChatMissing(c)
       \/ SendFanOut(c)

\* lines 364-372: the loop goes on after an await of send_text
FanStep(c) ==
    /\ pc[c] = "fanout"
    /\ UNCHANGED store
    /\ FanOut(c, idx[c])

\* POST /create-chat, lines 294-306, when it inserts a document
CreateChatHttp(initiator, p, is_group) ==
    LET r == create_chat(chats, initiator, p, is_group, clock)
    IN  /\ r[1] # chats
        /\ DocsRoom
        /\ chats' = r[1]
        /\ clock' = clock + 1
        /\ sent' = NoSend
        /\ handled' = NotHandled
        /\ UNCHANGED << messages, active_connections, pc, token, username,
                        transport, close_code, frame, idx >>

Next ==
    \/ \E c \in Conns, t \in TokenInputs : Connect(c, t)
    \/ \E c \in Conns : Accept(c)
    \/ \E c \in Conns : AcceptFails(c)
    \/ \E c \in Conns : ClientDisconnect(c)
    \/ \E c \in Conns : \E f \in CreateFrames \cup SendFrames \cup OtherFrames :
            Receive(c, f)
    \/ \E c \in Conns : ReceiveDisconnect(c)
    \/ \E c \in Conns : HandleMalformed(c)
    \/ \E c \in Conns : HandleOther(c)
    \/ \E c \in Conns : HandleCreateChat(c)
    \/ \E c \in Conns : HandleSendMessage(c)
    \/ \E c \in Conns : FanStep(c)
    \/ \E r \in CreateInputs : CreateChatHttp(r[1], r[2], r[3])

Spec == Init /\ [][Next]_vars


\* ======================= properties =======================

Live == {"receiving", "handling", "fanout"}

PyMongoErrors ==
    {"PyMongoError: insert_one", "PyMongoError: update_one", "PyMongoError: find_one"}

\* the step is one of connection c's handler in the participants loop of a
\* send_message frame, no pymongo call having failed: the first stretch (up to
\* the first await) or a later one
LoopStep(c) ==
    \/ /\ pc[c] = "handling"
       /\ frame[c].type = "send_message"
       /\ pc'[c] # "handling"
       /\ frame[c].chat_id \in 1 .. Len(chats)
       /\ sent'.frame \notin { ErrorFrame(e) : e \in PyMongoErrors }
    \/ /\ pc[c] = "fanout"
       /\ (pc'[c] # "fanout" \/ idx'[c] # idx[c])

LoopFrom(c) == IF pc[c] = "fanout" THEN idx[c] ELSE 1
LoopTo(c) ==
    IF pc'[c] = "fanout" THEN idx'[c] - 1
    ELSE Len(chats[frame[c].chat_id].participants)

\* C1: in every stretch of the participants loop that ends without an error
\* reply, each participant passed that has a key in active_connections gets the
\* new_message frame of this message written to the connection stored under its
\* name (the sender included), participants without a key are passed over, and
\* no other connection is written to.
C1_FanOutExactlyConnectedParticipants ==
    [][\A c \in Conns :
        (LoopStep(c) /\ sent'.frame.type # "error") =>
            LET f == frame[c]
                chat == chats[f.chat_id]
                parts == chat.participants
                msg == NewMessage(f.chat_id, f.sender, f.message, chat.is_group)
            IN  /\ \A k \in LoopFrom(c) .. LoopTo(c) :
                      active_connections[parts[k]] # NoConn =>
                          /\ k = LoopTo(c)
                          /\ pc'[c] = "fanout"
                          /\ sent'.to = active_connections[parts[k]]
                          /\ sent'.frame = msg
                          /\ sent'.result # "raised"
                /\ pc'[c] = "fanout" =>
                      active_connections[parts[LoopTo(c)]] # NoConn
                /\ pc'[c] # "fanout" => pc'[c] = "receiving" /\ sent' = NoSend
    ]_vars

\* C1 witness: in the group chat of bob, carol and alice, alice's own connection
\* has just been written the message after bob's was, carol being offline.
C1_Witness ==
    \E c \in Conns :
        /\ pc[c] = "fanout"
        /\ idx[c] = 4
        /\ username[c] = "alice"
        /\ sent = Sent(c, NewMessage(frame[c].chat_id, "alice", "hi", TRUE), "delivered")
        /\ active_connections["carol"] = NoConn
        /\ active_connections["bob"] \notin {NoConn, c}

\* C2 (as claimed): when a handler ends while active_connections holds another,
\* newer connection under its username, that entry stays.
C2_StaleCloseKeepsNewerEntry ==
    [][\A c \in Conns :
        ( /\ pc[c] \in Live
          /\ pc'[c] = "closed"
          /\ active_connections[username[c]] \notin {NoConn, c} )
        => active_connections'[username[c]] = active_connections[username[c]]
    ]_vars

\* C3: an entry of active_connections is always a connection whose handler has
\* registered under that name and has not ended; an entry changes only by being
\* removed or by a registration, and a registration installs the registering
\* connection: the entry, when present, is the last connection registered.
C3_EntryIsLatestLiveRegistration ==
    [][\A u \in Users :
        LET e == active_connections'[u]
        IN  /\ e # NoConn => pc'[e] \in Live /\ username'[e] = u
            /\ e # active_connections[u] =>
                  \/ e = NoConn
                  \/ pc[e] = "accepting" /\ pc'[e] = "receiving"
            /\ \A c \in Conns :
                  (pc[c] = "accepting" /\ pc'[c] = "receiving" /\ username[c] = u)
                      => e = c
    ]_vars

\* C3 witness: alice's second connection has replaced her first one, which is
\* still open.
C3_Witness ==
    /\ active_connections["alice"] = 2
    /\ pc[1] \in Live
    /\ username[1] = "alice"
    /\ transport[1] = "open"

\* C4 (as claimed): when the write to one recipient fails, the loop goes on with
\* the next participant and no error frame is written to the sender.
C4_WriteFailureSwallowed ==
    [][\A c \in Conns :
        (LoopStep(c) /\ transport[c] = "open") =>
            /\ sent'.frame # ErrorFrame("WebSocketDisconnect")
            /\ pc'[c] \in {"fanout", "receiving"}
    ]_vars

\* C5: a send_message frame whose chat_id names no chat document is answered by
\* an error frame written to the sending connection (delivered if its client is
\* still there), and the participants loop is never entered: no new_message
\* frame is written to any connection.
C5_MissingChatYieldsErrorOnly ==
    [][\A c \in Conns :
        ( /\ pc[c] = "handling"
          /\ frame[c].type = "send_message"
          /\ frame[c].chat_id \notin 1 .. Len(chats)
          /\ pc'[c] # "handling" )
        => /\ sent'.to = c
           /\ sent'.frame.type = "error"
           /\ transport[c] = "open" => sent'.result = "delivered" /\ pc'[c] = "receiving"
           /\ pc'[c] # "fanout"
    ]_vars

\* C5 witness: the AttributeError of the missing chat has been reported to the
\* sender and the message document is in the store.
C5_Witness ==
    /\ sent.frame = ErrorFrame("AttributeError")
    /\ sent.result = "delivered"
    /\ \E k \in 1 .. Len(messages) : messages[k].chat_id = MissingId


\* the non-group chat documents that hold both a and b, and the first of them
PairChats(cs, a, b) ==
    { i \in 1 .. Len(cs) :
        /\ ~cs[i].is_group
        /\ InSeq(a, cs[i].participants)
        /\ InSeq(b, cs[i].participants) }

FirstPairChat(cs, a, b) ==
    IF PairChats(cs, a, b) = {} THEN 0
    ELSE CHOOSE i \in PairChats(cs, a, b) : \A j \in PairChats(cs, a, b) : i <= j

\* connection c's handler answers a non-group request of an initiator for one
\* other user
PairRequestAnswered(c) ==
    /\ pc[c] = "handling"
    /\ frame[c].type = "create_chat"
    /\ frame[c].participants.is_str
    /\ ~frame[c].is_group
    /\ pc'[c] # "handling"
    /\ sent'.frame.type = "chat_created"

\* C6: a non-group request for a pair is answered with the id of the first
\* non-group chat holding both users, whichever of the two is the initiator, and
\* it inserts a document only if there was no such chat; chat documents are
\* only ever added at the end and keep their participants, so that first chat
\* stays the same: a second request for the pair, in either order, returns the
\* id the first one returned and inserts nothing.
C6_PairRequestIdempotent ==
    [][ /\ \A c \in Conns :
            PairRequestAnswered(c) =>
                LET a == frame[c].initiator
                    b == frame[c].participants.v[1]
                    before == FirstPairChat(chats, a, b)
                    id == sent'.frame.chat_id
                IN  /\ id = FirstPairChat(chats', a, b)
                    /\ id = FirstPairChat(chats', b, a)
                    /\ before # 0 => id = before /\ chats' = chats
                    /\ before = 0 => chats' # chats /\ id = Len(chats')
        /\ Len(chats') >= Len(chats)
        /\ \A i \in 1 .. Len(chats) :
            /\ chats'[i].participants = chats[i].participants
            /\ chats'[i].is_group = chats[i].is_group
    ]_vars

\* C6 witness: bob's connection asked for a chat with alice after alice's chat
\* with bob existed, and was answered with that chat's id.
C6_Witness ==
    /\ Len(chats) = 1
    /\ chats[1].participants = << "alice", "bob" >>
    /\ sent.frame = ChatCreated(1, StrArg("alice"), FALSE)
    /\ sent.to # NoConn
    /\ username[sent.to] = "bob"

\* C7: no two non-group chat documents have the same two users as their
\* participants.
C7_OnePairChatPerPair ==
    \A a \in Users, b \in Users :
        a # b =>
            Cardinality({ i \in 1 .. Len(chats) :
                            /\ ~chats[i].is_group
                            /\ { chats[i].participants[k] :
                                    k \in 1 .. Len(chats[i].participants) } = {a, b} })
                <= 1

\* C7 witness: requests for the same pair from two connections overlap; one has
\* been answered while the other's frame is taken and not handled yet.
C7_Witness ==
    \E c \in Conns, d \in Conns :
        /\ c # d
        /\ pc[c] = "handling"
        /\ frame[c].type = "create_chat"
        /\ ~frame[c].is_group
        /\ NormParticipants(frame[c].initiator, frame[c].participants) = << "bob", "alice" >>
        /\ sent = Sent(d, ChatCreated(1, StrArg("bob"), FALSE), "delivered")
        /\ Len(chats) = 1

\* the token names no document of tokens_collection
Unresolved(t) == \A d \in tokens_collection : d.token # t

Rejected(c) == pc[c] = "closed" /\ token[c] # None /\ Unresolved(token[c])

\* C8: a connection arriving with a token that resolves to no user is closed
\* with code 1008 at once, without a change of the store or of
\* active_connections; from then on its handler takes no frame, no entry of
\* active_connections refers to it and nothing is written to it.
C8_UnresolvedTokenRejected ==
    [][\A c \in Conns :
        /\ (pc[c] = "idle" /\ pc'[c] # "idle" /\ Unresolved(token'[c])) =>
              /\ pc'[c] = "closed"
              /\ close_code'[c] = POLICY_VIOLATION
              /\ sent' = NoSend
              /\ UNCHANGED << store, active_connections >>
        /\ Rejected(c) =>
              /\ pc'[c] = "closed"
              /\ token'[c] = token[c]
              /\ frame'[c] = NoFrame
              /\ close_code'[c] = POLICY_VIOLATION
              /\ sent'.to # c
              /\ \A u \in Users : active_connections'[u] # c
    ]_vars

\* C8 witness: the first connection was rejected and the second one, accepted
\* later, has been answered.
C8_Witness ==
    /\ Rejected(1)
    /\ close_code[1] = POLICY_VIOLATION
    /\ sent.to = 2
    /\ sent.result = "delivered"

\* C9: handling a create_chat frame writes to no connection but the one that
\* submitted it, and what it writes is a chat_created frame with the id of a
\* chat document holding the requested participants; the reply reaches the
\* client if it is still there and no store call failed.
C9_CreateReplyOnlyToSubmitter ==
    [][\A c \in Conns :
        ( /\ pc[c] = "handling"
          /\ frame[c].type = "create_chat"
          /\ pc'[c] # "handling" )
        => LET parts == NormParticipants(frame[c].initiator, frame[c].participants)
           IN  /\ sent'.to \in {c, NoConn}
               /\ sent'.to = c =>
                     /\ sent'.frame.type = "chat_created"
                     /\ sent'.frame.chat_id \in 1 .. Len(chats')
                     /\ \A k \in 1 .. Len(parts) :
                           InSeq(parts[k], chats'[sent'.frame.chat_id].participants)
               /\ pc'[c] \in {"receiving", "closed"}
               /\ (transport[c] = "open" /\ pc'[c] = "receiving") =>
                     sent'.to = c /\ sent'.result = "delivered"
    ]_vars

\* C9 witness: alice's connection was answered for the group chat while bob,
\* one of its participants, is connected.
C9_Witness ==
    /\ sent.frame.type = "chat_created"
    /\ sent.frame.is_group
    /\ sent.result = "delivered"
    /\ username[sent.to] = "alice"
    /\ active_connections["bob"] \notin {NoConn, sent.to}
    /\ transport[active_connections["bob"]] = "open"

PersistenceErrors == PyMongoErrors \cup {"InvalidId", "AttributeError"}

\* C10: when handling a send_message frame fails in add_message_to_chat or in
\* the lookup of the chat, the error frame is written to the submitting
\* connection and to no other; if its client is still there it gets the frame,
\* the handler is back at receive_text and active_connections is unchanged.
C10_PersistenceErrorKeepsConnection ==
    [][\A c \in Conns :
        ( /\ pc[c] = "handling"
          /\ frame[c].type = "send_message"
          /\ pc'[c] # "handling"
          /\ sent'.frame.type = "error"
          /\ sent'.frame.message \in PersistenceErrors )
        => /\ sent'.to = c
           /\ transport[c] = "open" =>
                 /\ sent'.result = "delivered"
                 /\ pc'[c] = "receiving"
                 /\ transport'[c] = "open"
                 /\ active_connections' = active_connections
    ]_vars

\* C10 witness: a pymongo failure was reported to a registered connection, which
\* is receiving again under its entry.
C10_Witness ==
    /\ sent.frame = ErrorFrame("PyMongoError: insert_one")
    /\ sent.result = "delivered"
    /\ pc[sent.to] = "receiving"
    /\ active_connections[username[sent.to]] = sent.to

\* the step is connection c's handler failing in a pymongo call while it handles
\* a create_chat or send_message frame, its client being there
StoreFailure(c) ==
    /\ pc[c] = "handling"
    /\ transport[c] = "open"
    /\ handled'.conn = c
    /\ \/ /\ frame[c].type = "create_chat"
          /\ sent'.frame.type # "chat_created"
       \/ /\ frame[c].type = "send_message"
          /\ sent'.frame \in { ErrorFrame(e) : e \in PyMongoErrors }

\* C11 (as claimed): a pymongo failure while a create_chat or send_message frame
\* is handled changes no entry of active_connections, the handler's own
\* included, closes no connection and writes to no connection but the acting one.
C11_StoreFailureKeepsRegistry ==
    [][\A c \in Conns :
        StoreFailure(c) =>
            /\ active_connections' = active_connections
            /\ \A d \in Conns : pc'[d] # "closed" \/ pc[d] = "closed"
            /\ sent'.to \in {c, NoConn}
    ]_vars

\* the names of a participants list
Names(parts) == { parts[k] : k \in 1 .. Len(parts) }

\* C12 (as claimed): every chat document has at least two participants and no
\* name twice in its list.
C12_AtLeastTwoDistinctParticipants ==
    \A i \in 1 .. Len(chats) :
        /\ Len(chats[i].participants) >= 2
        /\ Cardinality(Names(chats[i].participants)) = Len(chats[i].participants)

\* the step ends the handler of connection c, which was registered
HandlerEnds(c) == pc[c] \in Live /\ pc'[c] = "closed"

\* connection d is the one connection user b ever opened; it is registered and
\* its client is there
OnlyConnection(d, b) ==
    /\ pc[d] \in Live
    /\ username[d] = b
    /\ transport[d] = "open"
    /\ \A e \in Conns \ {d} : username[e] # b

\* some registered connection of a user outside parts has ended
ClosedOutside(parts) ==
    \E a \in Conns :
        /\ pc[a] = "closed"
        /\ username[a] \in Users \ Names(parts)

\* C13: when a handler ends, the entries of active_connections under all other
\* names stay as they are; and in every stretch of the participants loop of a
\* chat that ends without an error reply, after a connection of a user outside
\* the chat has ended, a participant passed whose one connection is registered
\* with its client there is written the new_message frame on that connection.
C13_CloseLeavesOthersReachable ==
    [][\A c \in Conns :
        /\ HandlerEnds(c) =>
              \A u \in Users \ {username[c]} :
                  active_connections'[u] = active_connections[u]
        /\ ( /\ LoopStep(c)
             /\ sent'.frame.type # "error"
             /\ ClosedOutside(chats[frame[c].chat_id].participants) ) =>
              LET f == frame[c]
                  chat == chats[f.chat_id]
                  parts == chat.participants
              IN  \A k \in LoopFrom(c) .. LoopTo(c), d \in Conns :
                      OnlyConnection(d, parts[k]) =>
                          /\ k = LoopTo(c)
                          /\ active_connections[parts[k]] = d
                          /\ sent' = Sent(d, NewMessage(f.chat_id, f.sender, f.message,
                                                        chat.is_group), "delivered")
    ]_vars

\* C13 witness: bob's connection has ended; alice, still registered, has been
\* delivered a message of a chat bob is not in.
C13_Witness ==
    \E a \in Conns, d \in Conns :
        /\ pc[a] = "closed"
        /\ username[a] = "bob"
        /\ username[d] = "alice"
        /\ active_connections["alice"] = d
        /\ sent.to = d
        /\ sent.result = "delivered"
        /\ sent.frame.type = "new_message"
        /\ "bob" \notin Names(chats[sent.frame.chat_id].participants)

\* the step is one of connection c's handler
Acting(c) == pc'[c] # pc[c] \/ idx'[c] # idx[c]

Busy == {"handling", "fanout"}

\* the timestamps of the message documents of a chat
Timestamps(ms, chat_id) ==
    { ms[k].timestamp : k \in { n \in 1 .. Len(ms) : ms[n].chat_id = chat_id } }

\* C14: a handler takes a frame only at receive_text and keeps it until its loop
\* iteration is over, so the handling of two frames of one connection never
\* overlaps; the message document of a send_message frame is appended, with a
\* timestamp above all earlier ones of its chat, in the first step of the
\* frame's handling; every new_message frame written is that of the frame the
\* acting handler holds; and an iteration for a send_message frame that ends
\* without an error reply leaves no participant with a key in
\* active_connections unserved.  Two messages of one connection to one chat are
\* therefore stored, and written to every recipient, in the order sent.
C14_FramesHandledInOrder ==
    [][\A c \in Conns :
        /\ frame'[c] # frame[c] =>
              \/ pc[c] = "receiving" /\ pc'[c] = "handling"
              \/ pc[c] \in Busy /\ handled' = Handled(c, frame[c]) /\ frame'[c] = NoFrame
        /\ (pc[c] \in Busy /\ pc'[c] \notin Busy) => handled' = Handled(c, frame[c])
        /\ (pc[c] = "fanout" /\ Acting(c)) => messages' = messages
        /\ (pc[c] = "handling" /\ Acting(c) /\ messages' # messages) =>
              /\ frame[c].type = "send_message"
              /\ messages' = Append(messages,
                    MessageDocument(frame[c].chat_id, frame[c].sender,
                                    frame[c].message, clock))
              /\ \A t \in Timestamps(messages, frame[c].chat_id) : t < clock
        /\ (Acting(c) /\ sent'.frame.type = "new_message") =>
              /\ pc[c] \in Busy
              /\ frame[c].type = "send_message"
              /\ sent'.frame = NewMessage(frame[c].chat_id, frame[c].sender,
                                          frame[c].message,
                                          chats[frame[c].chat_id].is_group)
        /\ ( /\ pc[c] \in Busy
             /\ frame[c].type = "send_message"
             /\ pc'[c] = "receiving"
             /\ sent'.frame.type # "error" ) =>
              /\ sent' = NoSend
              /\ NextTarget(chats[frame[c].chat_id].participants, LoopFrom(c)) = 0
    ]_vars

\* C14 witness: the only connection there is has sent two messages to chat 1;
\* both are stored, in that order, and the second has just been written to its
\* sender's connection while the loop is still suspended.
C14_Witness ==
    /\ pc[1] = "fanout"
    /\ pc[2] = "idle"
    /\ Len(messages) = 2
    /\ messages[1].chat_id = 1
    /\ messages[2].chat_id = 1
    /\ messages[1].timestamp < messages[2].timestamp
    /\ get_chat_messages(1) = messages
    /\ frame[1].chat_id = 1
    /\ sent = Sent(1, NewMessage(1, "alice", "hi", chats[1].is_group), "delivered")

\* C15: no entry of active_connections refers to a connection whose handler has
\* ended, whatever ended it.
C15_EndedHandlerNotRegistered ==
    \A c \in Conns :
        pc[c] = "closed" => \A u \in Users : active_connections[u] # c

\* C15 witness: a registered connection's handler has just ended on a frame
\* that is not JSON, while another user's connection stays registered.
C15_Witness ==
    \E c \in Conns, d \in Conns :
        /\ pc[c] = "closed"
        /\ username[c] \in Users
        /\ handled = Handled(c, [type |-> "<not json>"])
        /\ pc[d] = "receiving"
        /\ username[d] # username[c]
        /\ active_connections[username[d]] = d

\* C16: handling a frame that is JSON and whose type is neither create_chat nor
\* send_message writes to no connection, changes neither the store nor
\* active_connections, and leaves the handler at receive_text with its socket
\* as it was: the iteration is over and the next frame can be taken.
C16_OtherTypeIsNoOp ==
    [][\A c \in Conns :
        ( /\ pc[c] = "handling"
          /\ frame[c].type \notin {"create_chat", "send_message", "<not json>"}
          /\ Acting(c) )
        => /\ sent' = NoSend
           /\ UNCHANGED << store, active_connections, transport, close_code >>
           /\ pc' = [pc EXCEPT ![c] = "receiving"]
           /\ handled' = Handled(c, frame[c])
    ]_vars

\* C16 witness: a registered connection has just passed over a frame of type
\* "typing" and is at receive_text again, a chat and another registered
\* connection being there.
C16_Witness ==
    \E c \in Conns, d \in Conns :
        /\ handled = Handled(c, [type |-> "typing"])
        /\ pc[c] = "receiving"
        /\ active_connections[username[c]] = c
        /\ d # c
        /\ username[d] \in Users
        /\ active_connections[username[d]] = d
        /\ Len(chats) > 0

\* the documents of ms that belong to chat_id, in insertion order
OfChat(ms, chat_id) == SelectSeq(ms, LAMBDA m : m.chat_id = chat_id)

\* ms holds a document for this chat id, sender and text
Stored(ms, chat_id, sender, message) ==
    \E k \in 1 .. Len(ms) :
        /\ ms[k].chat_id = chat_id
        /\ ms[k].sender = sender
        /\ ms[k].message = message

\* C17: whenever a new_message frame is written to a connection, a message
\* document with its chat id, sender and text is in the store; a send_message
\* frame handled without an error reply adds exactly one message document, in
\* the first step of its handling, and none while its loop goes on; and the
\* history of each chat, by ascending timestamp, is its documents in the order
\* they were inserted.
C17_StoredBeforeFanOut ==
    [][ /\ sent'.frame.type = "new_message" =>
              Stored(messages', sent'.frame.chat_id, sent'.frame.sender,
                     sent'.frame.message)
        /\ \A c \in Conns :
              /\ ( /\ pc[c] = "handling"
                   /\ frame[c].type = "send_message"
                   /\ Acting(c)
                   /\ sent'.frame.type # "error" ) =>
                    /\ Len(messages') = Len(messages) + 1
                    /\ messages' = Append(messages,
                          MessageDocument(frame[c].chat_id, frame[c].sender,
                                          frame[c].message, clock))
              /\ (pc[c] = "fanout" /\ Acting(c)) => messages' = messages
        /\ \A id \in 1 .. Len(chats') :
              get_chat_messages_from(messages', id, << >>) = OfChat(messages', id)
    ]_vars

\* C17 witness: alice's "hi" has been written to bob's connection and the
\* history of the chat is that one message.
C17_Witness ==
    /\ sent.frame.type = "new_message"
    /\ sent.result = "delivered"
    /\ username[sent.to] = "bob"
    /\ get_chat_messages(sent.frame.chat_id)
          = << MessageDocument(sent.frame.chat_id, "alice", "hi",
                               messages[1].timestamp) >>
    /\ Len(messages) = 1

\* the step is connection c's handler failing in the update_one of lines 165-168
UpdateFailed(c) ==
    /\ pc[c] = "handling"
    /\ frame[c].type = "send_message"
    /\ Acting(c)
    /\ sent'.frame = ErrorFrame("PyMongoError: update_one")

\* C18: when update_one fails in add_message_to_chat, the message document
\* inserted before it stays: the step leaves messages extended by the frame's
\* document and chats as it was; no step ever removes or changes a message
\* document; and get_chat_messages of a document's chat id returns the document.
C18_FailedUpdateKeepsMessage ==
    [][ /\ \A c \in Conns :
              UpdateFailed(c) =>
                  /\ messages' = Append(messages,
                        MessageDocument(frame[c].chat_id, frame[c].sender,
                                        frame[c].message, clock))
                  /\ chats' = chats
        /\ Len(messages') >= Len(messages)
        /\ \A k \in 1 .. Len(messages) : messages'[k] = messages[k]
        /\ \A k \in 1 .. Len(messages') :
              InSeq(messages'[k],
                    get_chat_messages_from(messages', messages'[k].chat_id, << >>))
    ]_vars

\* C18 witness: the failure of update_one has been reported for a message to
\* chat 1, whose last_message_at was never set, and the chat's history holds
\* the message.
C18_Witness ==
    /\ sent.frame = ErrorFrame("PyMongoError: update_one")
    /\ sent.result = "delivered"
    /\ Len(chats) >= 1
    /\ chats[1].last_message_at = NoTime
    /\ Len(get_chat_messages(1)) = 1
    /\ handled.frame.type = "send_message"
    /\ handled.frame.chat_id = 1

\* C19 (as claimed): a message document stored by a handler, and every
\* new_message frame it writes, has as sender the username the handler's token
\* resolved to, and that user is a participant of the chat the message goes to.
C19_SenderIsAuthenticatedParticipant ==
    [][\A c \in Conns :
        /\ (pc[c] = "handling" /\ Acting(c) /\ messages' # messages) =>
              /\ messages'[Len(messages')].sender = username[c]
              /\ frame[c].chat_id \in 1 .. Len(chats) =>
                    InSeq(username[c], chats[frame[c].chat_id].participants)
        /\ (Acting(c) /\ sent'.frame.type = "new_message") =>
              /\ sent'.frame.sender = username[c]
              /\ InSeq(username[c], chats[sent'.frame.chat_id].participants)
    ]_vars

\* C20 (as claimed): every message document has the id of a chat document in
\* chats as its chat_id.
C20_MessagesReferenceChats ==
    \A k \in 1 .. Len(messages) : messages[k].chat_id \in 1 .. Len(chats)

====
